---------------------------- MODULE Spec2Model ----------------------------
(***************************************************************************)
(* A model of page_scraper.py: the field extractors of                     *)
(* CostaRicaJobsScraper, get_job_details, scrape_all_pages,                *)
(* initial_scrape and weekly_update.                                       *)
(*                                                                         *)
(* Spec is the crawl; SpecDetails, SpecDeadline, SpecTitle and SpecSalary  *)
(* each run one function on the pages of a bounded family of documents.    *)
(*                                                                         *)
(* Text is a sequence of tokens.  A token is one character ("4", "/", " ") *)
(* or one word ("Salario", "Deadline"); a regular expression of the source *)
(* is a set of alternatives, each a sequence of atoms over tokens.  Words  *)
(* are written without their accents (Limite, Area, Genero).               *)
(*                                                                         *)
(* A parsed document (the BeautifulSoup tree) is the sequence of its       *)
(* elements in document order.  Each element names its parent (0: the      *)
(* document itself), its tag, its class, src, alt and href attributes and  *)
(* the text node it starts with (<<>>: none).                              *)
(***************************************************************************)
EXTENDS Integers, Sequences, FiniteSets, TLC

VARIABLES
    soup,        \* the parsed document the current call works on
    job_url,     \* the argument of get_job_details
    today,       \* the clock: the date datetime.now() falls on
    job_data,    \* what get_job_details returned (None before and on failure)
    result,      \* what the extractor under study returned
    pc,          \* position of the running function
    page,        \* scrape_all_pages: the loop variable
    max_pages,   \* scrape_all_pages: its argument
    job_cards,   \* scrape_all_pages: the cards of the page still to visit
    more_pages,  \* scrape_all_pages: the current listing page has a next link
    all_jobs,    \* scrape_all_pages: the records collected so far
    stored,      \* the records of costa_rica_jobs_full.json
    requests,    \* the listing pages requested so far, oldest first
    attempts,    \* the GET requests the last get_job_details call sent
    response,    \* how the GET of the last get_job_details call ended
    caller       \* the function that was called

vars == <<soup, job_url, today, job_data, result, pc, page, max_pages,
          job_cards, more_pages, all_jobs, stored, requests, attempts,
          response, caller>>

\* Python's None, where a record or a date is expected
None == <<>>

-----------------------------------------------------------------------------
(* Text *)

Digits == {"0", "1", "2", "3", "4", "5", "6", "7", "8", "9"}

DigitVal(c) ==
    CASE c = "0" -> 0 [] c = "1" -> 1 [] c = "2" -> 2 [] c = "3" -> 3
      [] c = "4" -> 4 [] c = "5" -> 5 [] c = "6" -> 6 [] c = "7" -> 7
      [] c = "8" -> 8 [] c = "9" -> 9

DigitChar(n) ==
    CASE n = 0 -> "0" [] n = 1 -> "1" [] n = 2 -> "2" [] n = 3 -> "3"
      [] n = 4 -> "4" [] n = 5 -> "5" [] n = 6 -> "6" [] n = 7 -> "7"
      [] n = 8 -> "8" [] n = 9 -> "9"

\* The tokens of the model that hold capitals, each with its lower case
Capitalised ==
    {<<"Vacante", "vacante">>, <<"VACANTE", "vacante">>,
     <<"Fresca", "fresca">>, <<"FRESCA", "fresca">>,
     <<"Urgente", "urgente">>, <<"Fecha", "fecha">>, <<"Limite", "limite">>,
     <<"Deadline", "deadline">>, <<"DEADLINE", "deadline">>,
     <<"Cierre", "cierre">>, <<"Salario", "salario">>,
     <<"SALARIO", "salario">>, <<"Salary", "salary">>,
     <<"Sueldo", "sueldo">>, <<"Genero", "genero">>, <<"Gender", "gender">>,
     <<"Sexo", "sexo">>, <<"Masculino", "masculino">>,
     <<"Femenino", "femenino">>, <<"Hombre", "hombre">>,
     <<"Mujer", "mujer">>, <<"Male", "male">>, <<"Female", "female">>,
     <<"Indistinto", "indistinto">>, <<"Ambos", "ambos">>,
     <<"Both", "both">>, <<"Area", "area">>, <<"Puesto", "puesto">>,
     <<"Category", "category">>, <<"Tiempo", "tiempo">>,
     <<"Completo", "completo">>, <<"Parcial", "parcial">>,
     <<"Full", "full">>, <<"Part", "part">>, <<"Time", "time">>,
     <<"Mensual", "mensual">>, <<"Anual", "anual">>,
     <<"Experiencia", "experiencia">>, <<"Experience", "experience">>,
     <<"Nivel", "nivel">>, <<"Computo", "computo">>, <<"Career", "career">>,
     <<"Level", "level">>, <<"Academico", "academico">>,
     <<"Education", "education">>, <<"Qualification", "qualification">>,
     <<"Escolaridad", "escolaridad">>, <<"Ubicacion", "ubicacion">>,
     <<"Location", "location">>, <<"Costa", "costa">>, <<"Rica", "rica">>,
     <<"San", "san">>, <<"Jose", "jose">>, <<"Tibas", "tibas">>,
     <<"Tournon", "tournon">>, <<"Barrio", "barrio">>, <<"Heredia", "heredia">>,
     <<"S", "s">>, <<"SALARY", "salary">>, <<"Siguiente", "siguiente">>,
     <<"Next", "next">>, <<"NEXT", "next">>}

LowerOf == [t \in {p[1] : p \in Capitalised} |->
               (CHOOSE p \in Capitalised : p[1] = t)[2]]

\* str.lower() on one token
Lower(t) == IF t \in DOMAIN LowerOf THEN LowerOf[t] ELSE t

LowerText(s) == [i \in 1..Len(s) |-> Lower(s[i])]

\* The whitespace \s matches and str.strip() removes
WhiteSpace == {" ", "\n"}

IsSpace(t) == t \in WhiteSpace

\* Number of characters of a text: len(str)
RECURSIVE StrLen(_)
StrLen(s) == IF s = <<>> THEN 0 ELSE Len(Head(s)) + StrLen(Tail(s))

\* str.strip()
RECURSIVE LStrip(_)
LStrip(s) == IF s # <<>> /\ IsSpace(Head(s)) THEN LStrip(Tail(s)) ELSE s

RECURSIVE RStrip(_)
RStrip(s) ==
    IF s # <<>> /\ IsSpace(s[Len(s)]) THEN RStrip(SubSeq(s, 1, Len(s) - 1))
    ELSE s

Strip(s) == RStrip(LStrip(s))

\* separator.join(list of texts)
RECURSIVE Join(_, _)
Join(sep, texts) ==
    IF texts = <<>> THEN <<>>
    ELSE IF Len(texts) = 1 THEN texts[1]
    ELSE texts[1] \o sep \o Join(sep, Tail(texts))

-----------------------------------------------------------------------------
(* Regular expressions over tokens.  An atom is a literal token or a       *)
(* repetition (plus or star) of a token class; a pattern is a sequence     *)
(* of atoms; a regular expression is a sequence of patterns, tried in      *)
(* order at each position as re does for p1|p2|p3.  A repetition takes the *)
(* longest run: in every pattern of the source the atom that follows a     *)
(* repetition is disjoint from its class, so no backtracking is needed.    *)

\* re.IGNORECASE: the tokens of the expression in lower case, to be compared
\* with the lower case of the text
IgnoreCase(re) ==
    [a \in 1..Len(re) |->
        [k \in 1..Len(re[a]) |->
            [re[a][k] EXCEPT !.toks = {Lower(u) : u \in re[a][k].toks}]]]

Lit(t) == [kind |-> "one", toks |-> {t}]
OneOf(class) == [kind |-> "one", toks |-> class]
Plus(class) == [kind |-> "plus", toks |-> class]
Star(class) == [kind |-> "star", toks |-> class]
Word(t) == <<Lit(t)>>

\* ic: the expression went through IgnoreCase
TokIn(t, toks, ic) == IF ic THEN Lower(t) \in toks ELSE t \in toks

\* The end of the longest run of class tokens of s starting at i
RECURSIVE RunEnd(_, _, _, _)
RunEnd(s, i, toks, ic) ==
    IF i <= Len(s) /\ TokIn(s[i], toks, ic) THEN RunEnd(s, i + 1, toks, ic)
    ELSE i

\* The position after the match of pattern pat (from atom k on) that
\* starts at position i of s, or 0 when there is none
RECURSIVE MatchFrom(_, _, _, _, _)
MatchFrom(s, i, pat, k, ic) ==
    IF k > Len(pat) THEN i
    ELSE IF pat[k].kind = "star"
         THEN MatchFrom(s, RunEnd(s, i, pat[k].toks, ic), pat, k + 1, ic)
    ELSE IF i > Len(s) \/ ~TokIn(s[i], pat[k].toks, ic) THEN 0
    ELSE IF pat[k].kind = "one" THEN MatchFrom(s, i + 1, pat, k + 1, ic)
    ELSE MatchFrom(s, RunEnd(s, i, pat[k].toks, ic), pat, k + 1, ic)

\* regex.match at position i: the first alternative that matches decides
RECURSIVE MatchAt(_, _, _, _, _)
MatchAt(s, i, re, a, ic) ==
    IF a > Len(re) THEN 0
    ELSE LET end == MatchFrom(s, i, re[a], 1, ic)
         IN  IF end # 0 THEN end ELSE MatchAt(s, i, re, a + 1, ic)

\* regex.search(s) is not None
Search(re, s, ic) == \E i \in 1..Len(s) : MatchAt(s, i, re, 1, ic) # 0

\* re.sub(re, '', s): the matches are removed left to right
RECURSIVE SubEmpty(_, _, _, _)
SubEmpty(re, s, i, ic) ==
    IF i > Len(s) THEN <<>>
    ELSE LET end == MatchAt(s, i, re, 1, ic)
         IN  IF end # 0 THEN SubEmpty(re, s, end, ic)
             ELSE <<s[i]>> \o SubEmpty(re, s, i + 1, ic)

\* sub is a substring of the single token t: the token itself, or one of
\* the keywords of the source that lies inside another word
Within(sub, t) == sub = t \/ <<sub, t>> \in {<<"male", "female">>}

\* re.findall(re, s): the matched texts, left to right
RECURSIVE FindAll(_, _, _, _)
FindAll(re, s, i, ic) ==
    IF i > Len(s) THEN <<>>
    ELSE LET end == MatchAt(s, i, re, 1, ic)
         IN  IF end # 0
             THEN <<SubSeq(s, i, end - 1)>> \o FindAll(re, s, end, ic)
             ELSE FindAll(re, s, i + 1, ic)

\* s.replace(t, '') for every token t of toks
RECURSIVE Remove(_, _)
Remove(s, toks) ==
    IF s = <<>> THEN <<>>
    ELSE IF Head(s) \in toks THEN Remove(Tail(s), toks)
    ELSE <<Head(s)>> \o Remove(Tail(s), toks)

\* 'sub' in text
InText(sub, s) == \E i \in 1..Len(s) : Within(sub, s[i])

-----------------------------------------------------------------------------
(* The parsed document *)

\* An element with no attributes
El(tag, parent, text) ==
    [tag |-> tag, parent |-> parent, class |-> <<>>, src |-> <<>>,
     alt |-> <<>>, href |-> <<>>, text |-> text]

\* An element with a class attribute
ElC(tag, parent, class, text) ==
    [tag |-> tag, parent |-> parent, class |-> class, src |-> <<>>,
     alt |-> <<>>, href |-> <<>>, text |-> text]

\* <img class=.. src=.. alt=..> and <iframe src=..>
ElSrc(tag, parent, class, src, alt) ==
    [tag |-> tag, parent |-> parent, class |-> class, src |-> src,
     alt |-> alt, href |-> <<>>, text |-> <<>>]

\* <a href=..>
ElA(parent, href, text) ==
    [tag |-> "a", parent |-> parent, class |-> <<>>, src |-> <<>>,
     alt |-> <<>>, href |-> href, text |-> text]

Min(S) == CHOOSE x \in S : \A y \in S : x <= y

\* i is j or an ancestor of j (0 is the document, the ancestor of all)
RECURSIVE Encloses(_, _, _)
Encloses(doc, i, j) ==
    IF i = j \/ i = 0 THEN TRUE
    ELSE IF j = 0 THEN FALSE
    ELSE Encloses(doc, i, doc[j].parent)

\* element._all_strings(strip): the text nodes under element i in document
\* order; with strip each is stripped and dropped when nothing is left
RECURSIVE AllStrings(_, _, _, _)
AllStrings(doc, i, strip, j) ==
    IF j > Len(doc) THEN <<>>
    ELSE IF ~Encloses(doc, i, j) \/ doc[j].text = <<>>
         THEN AllStrings(doc, i, strip, j + 1)
    ELSE IF ~strip THEN <<doc[j].text>> \o AllStrings(doc, i, strip, j + 1)
    ELSE IF Strip(doc[j].text) = <<>> THEN AllStrings(doc, i, strip, j + 1)
    ELSE <<Strip(doc[j].text)>> \o AllStrings(doc, i, strip, j + 1)

\* element.get_text(separator, strip)
GetText(doc, i, sep, strip) == Join(sep, AllStrings(doc, i, strip, 1))

\* soup.find(text=re): the first text node the expression is found in
\* (named by the element that holds it), 0 when there is none
FindString(doc, re, ic) ==
    LET hits == {i \in 1..Len(doc) :
                    doc[i].text # <<>> /\ Search(re, doc[i].text, ic)}
    IN  IF hits = {} THEN 0 ELSE Min(hits)

\* soup.find(class_=re)
FindClass(doc, re, ic) ==
    LET hits == {i \in 1..Len(doc) : Search(re, doc[i].class, ic)}
    IN  IF hits = {} THEN 0 ELSE Min(hits)

\* element.find_next_sibling(): the next element with the same parent
FindNextSibling(doc, i) ==
    LET sibs == {j \in (i + 1)..Len(doc) : doc[j].parent = doc[i].parent}
    IN  IF sibs = {} THEN 0 ELSE Min(sibs)

\* element.find_next(): the next element in document order
FindNext(doc, i) == IF i < Len(doc) THEN i + 1 ELSE 0

\* parent.find_next_sibling() or parent.find_next()
ValueOf(doc, i) ==
    IF FindNextSibling(doc, i) # 0 THEN FindNextSibling(doc, i)
    ELSE FindNext(doc, i)

\* The label-then-value lookup shared by the extractors: the element after
\* the one that holds the first match of the label, 0 when there is no
\* label or no element after it
LabelValue(doc, re, ic) ==
    LET lab == FindString(doc, re, ic)
    IN  IF lab = 0 THEN 0 ELSE ValueOf(doc, lab)

\* value.get_text(strip=True)
TextOf(doc, value) == GetText(doc, value, <<>>, TRUE)

-----------------------------------------------------------------------------
(* URLs: a URL is a text; an absolute one starts with its scheme token. *)

base_url == <<"https://", "empleos.net">>

\* urljoin(base_url, ref) for the references the pages hold: an absolute
\* URL is kept, a rooted path is put after the origin, a relative path is
\* resolved against the site root (base_url has an empty path)
UrlJoin(base, ref) ==
    IF ref = <<>> THEN base
    ELSE IF Head(ref) \in {"https://", "http://"} THEN ref
    ELSE IF Head(ref) = "/" THEN base \o ref
    ELSE base \o <<"/">> \o ref

-----------------------------------------------------------------------------
(* Dates: datetime, timedelta, strptime and strftime *)

IsLeap(y) == (y % 4 = 0 /\ y % 100 # 0) \/ y % 400 = 0

DaysIn(y, m) ==
    IF m = 2 THEN (IF IsLeap(y) THEN 29 ELSE 28)
    ELSE IF m \in {4, 6, 9, 11} THEN 30
    ELSE 31

\* Days before 1 January of year y, and before the first of month m of y
DaysBeforeYear(y) ==
    (y - 1) * 365 + (y - 1) \div 4 - (y - 1) \div 100 + (y - 1) \div 400

RECURSIVE DaysBeforeMonth(_, _)
DaysBeforeMonth(y, m) ==
    IF m = 1 THEN 0 ELSE DaysBeforeMonth(y, m - 1) + DaysIn(y, m - 1)

\* date.toordinal() and date.fromordinal(n)
ToOrdinal(dt) == DaysBeforeYear(dt.y) + DaysBeforeMonth(dt.y, dt.m) + dt.d

FromOrdinal(n) ==
    LET y == CHOOSE yy \in (n \div 366)..(n \div 365 + 1) :
                 DaysBeforeYear(yy) < n /\ n <= DaysBeforeYear(yy + 1)
        m == CHOOSE mm \in 1..12 :
                 /\ DaysBeforeMonth(y, mm) < n - DaysBeforeYear(y)
                 /\ n - DaysBeforeYear(y)
                      <= DaysBeforeMonth(y, mm) + DaysIn(y, mm)
    IN  [y |-> y, m |-> m, d |-> n - DaysBeforeYear(y) - DaysBeforeMonth(y, m)]

\* dt + timedelta(days=n)
AddDays(dt, n) == FromOrdinal(ToOrdinal(dt) + n)

Pad2(n) == <<DigitChar(n \div 10), DigitChar(n % 10)>>

Pad4(n) ==
    <<DigitChar((n \div 1000) % 10), DigitChar((n \div 100) % 10),
      DigitChar((n \div 10) % 10), DigitChar(n % 10)>>

\* dt.strftime('%Y-%m-%d')
StrFTime(dt) == Pad4(dt.y) \o <<"-">> \o Pad2(dt.m) \o <<"-">> \o Pad2(dt.d)

IsDigitAt(s, i) == i <= Len(s) /\ s[i] \in Digits

\* Number of tokens the %d directive takes at position i (0: no match):
\* 3[0-1]|[1-2]\d|0[1-9]|[1-9]| [1-9]
DayWidth(s, i) ==
    IF i > Len(s) THEN 0
    ELSE IF s[i] = "3" /\ i < Len(s) /\ s[i + 1] \in {"0", "1"} THEN 2
    ELSE IF s[i] \in {"1", "2"} /\ IsDigitAt(s, i + 1) THEN 2
    ELSE IF s[i] = "0" /\ IsDigitAt(s, i + 1) /\ s[i + 1] # "0" THEN 2
    ELSE IF s[i] \in Digits \ {"0"} THEN 1
    ELSE IF s[i] = " " /\ IsDigitAt(s, i + 1) /\ s[i + 1] # "0" THEN 2
    ELSE 0

\* Number of tokens the %m directive takes: 1[0-2]|0[1-9]|[1-9]
MonthWidth(s, i) ==
    IF i > Len(s) THEN 0
    ELSE IF s[i] = "1" /\ i < Len(s) /\ s[i + 1] \in {"0", "1", "2"} THEN 2
    ELSE IF s[i] = "0" /\ IsDigitAt(s, i + 1) /\ s[i + 1] # "0" THEN 2
    ELSE IF s[i] \in Digits \ {"0"} THEN 1
    ELSE 0

\* Number of tokens the %Y directive takes: \d\d\d\d
YearWidth(s, i) ==
    IF \A k \in 0..3 : IsDigitAt(s, i + k) THEN 4 ELSE 0

\* int() of the digits of s from i, w tokens wide (a leading space skipped)
RECURSIVE IntOf(_, _, _)
IntOf(s, i, w) ==
    IF w = 0 THEN 0
    ELSE IF s[i + w - 1] = " " THEN 0
    ELSE 10 * IntOf(s, i, w - 1) + DigitVal(s[i + w - 1])

\* datetime.strptime(s, '%d/%m/%Y'): the date, or None for a ValueError
\* (no match, unconverted data, or a day the month does not have)
StrPTime(s) ==
    LET dw == DayWidth(s, 1)
        mi == dw + 2
        mw == MonthWidth(s, mi)
        yi == mi + mw + 1
        yw == YearWidth(s, yi)
    IN  IF dw = 0 \/ dw + 1 > Len(s) \/ s[dw + 1] # "/" THEN None
        ELSE IF mw = 0 \/ mi + mw > Len(s) \/ s[mi + mw] # "/" THEN None
        ELSE IF yw = 0 \/ yi + yw - 1 # Len(s) THEN None
        ELSE LET dt == [y |-> IntOf(s, yi, yw), m |-> IntOf(s, mi, mw),
                        d |-> IntOf(s, 1, dw)]
             IN  IF dt.y < 1 \/ dt.d > DaysIn(dt.y, dt.m) THEN None ELSE dt

-----------------------------------------------------------------------------
(* The extractors of CostaRicaJobsScraper *)

re_badge ==
    IgnoreCase(<< <<Lit("Vacante"), Plus(WhiteSpace), Lit("Fresca")>> >>)

re_heading_tags == {"h1", "h2", "h3"}

re_title_class ==
    <<Word("title"), Word("puesto"), <<Lit("job"), Lit("-"), Lit("title")>> >>

\* The heading text extract_title works on: get_text(strip=True), the
\* badge removed, then strip()
HeadingText(doc, i) ==
    Strip(SubEmpty(re_badge, GetText(doc, i, <<>>, TRUE), 1, TRUE))

\* title_candidates as they would be were every non-empty heading kept
RECURSIVE TitleCandidates_AnyNonEmpty(_, _)
TitleCandidates_AnyNonEmpty(doc, j) ==
    IF j > Len(doc) THEN <<>>
    ELSE IF doc[j].tag \notin re_heading_tags
         THEN TitleCandidates_AnyNonEmpty(doc, j + 1)
    ELSE LET text == HeadingText(doc, j)
         IN  IF text # <<>>
             THEN <<text>> \o TitleCandidates_AnyNonEmpty(doc, j + 1)
             ELSE TitleCandidates_AnyNonEmpty(doc, j + 1)

\* title_candidates: the headings from element j on, in document order
RECURSIVE TitleCandidates(_, _)
TitleCandidates(doc, j) ==
    IF j > Len(doc) THEN <<>>
    ELSE IF doc[j].tag \notin re_heading_tags THEN TitleCandidates(doc, j + 1)
    ELSE LET text == HeadingText(doc, j)
         IN  IF text # <<>> /\ StrLen(text) > 2
             THEN <<text>> \o TitleCandidates(doc, j + 1)
             ELSE TitleCandidates(doc, j + 1)

extract_title(doc) ==
    LET title_candidates == TitleCandidates(doc, 1)
        title == FindClass(doc, re_title_class, FALSE)
    IN  IF title_candidates # <<>> THEN title_candidates[1]
        ELSE IF title # 0
             THEN Strip(SubEmpty(re_badge, GetText(doc, title, <<>>, TRUE),
                                 1, TRUE))
        ELSE <<>>

re_logo == <<Word("logo"), Word("company")>>

extract_featured_image(doc) ==
    LET imgs == {i \in 1..Len(doc) :
                    doc[i].tag = "img" /\ Search(re_logo, doc[i].class, FALSE)}
    IN  IF imgs # {} /\ doc[Min(imgs)].src # <<>>
        THEN UrlJoin(base_url, doc[Min(imgs)].src)
        ELSE <<>>

re_featured == IgnoreCase(<<Word("featured"), Word("destacado")>>)

is_featured(doc) == IF FindClass(doc, re_featured, TRUE) # 0 THEN 1 ELSE 0

re_urgent == re_badge \o IgnoreCase(<<Word("Urgente")>>)

is_urgent(doc) == IF FindString(doc, re_urgent, TRUE) # 0 THEN 1 ELSE 0

re_description ==
    << <<Lit("Funciones"), Lit(" "), Lit("del"), Lit(" "), Lit("Puesto")>>,
       Word("Descripcion") >>

re_description_class ==
    <<Word("description"), Word("funciones"), Word("contenido")>>

\* desc_div is the next sibling of the label's element, else the element's
\* parent (the document when the element is at the top)
extract_description(doc) ==
    LET desc_section == FindString(doc, re_description, FALSE)
        desc == FindClass(doc, re_description_class, FALSE)
    IN  IF desc_section # 0
        THEN GetText(doc,
                     IF FindNextSibling(doc, desc_section) # 0
                     THEN FindNextSibling(doc, desc_section)
                     ELSE doc[desc_section].parent,
                     <<"\n">>, TRUE)
        ELSE IF desc # 0 THEN GetText(doc, desc, <<"\n">>, TRUE)
        ELSE <<>>

re_category ==
    IgnoreCase(
    << <<Lit("Area"), Lit(" "), Lit("del"), Lit(" "), Lit("Puesto")>>,
       Word("Category") >>)

\* extract_category with the empty text where the source has its default
extract_category_NoDefault(doc) ==
    LET value == LabelValue(doc, re_category, TRUE)
    IN  IF value # 0 THEN TextOf(doc, value) ELSE <<>>

extract_category(doc) ==
    LET value == LabelValue(doc, re_category, TRUE)
    IN  IF value # 0 THEN TextOf(doc, value) ELSE <<"Aduanas">>

\* Tiempo Completo|Tiempo Parcial|Full[-\s]?Time|Part[-\s]?Time
re_type ==
    IgnoreCase(<< <<Lit("Tiempo"), Lit(" "), Lit("Completo")>>,
       <<Lit("Tiempo"), Lit(" "), Lit("Parcial")>>,
       <<Lit("Full"), OneOf({"-"} \cup WhiteSpace), Lit("Time")>>,
       <<Lit("Full"), Lit("Time")>>,
       <<Lit("Part"), OneOf({"-"} \cup WhiteSpace), Lit("Time")>>,
       <<Lit("Part"), Lit("Time")>> >>)

extract_type(doc) ==
    LET type_text == FindString(doc, re_type, TRUE)
        text_lower == LowerText(Strip(doc[type_text].text))
    IN  IF type_text = 0 THEN <<"Tiempo", " ", "Completo">>
        ELSE IF InText("completo", text_lower) \/ InText("full", text_lower)
             THEN <<"Tiempo", " ", "Completo">>
        ELSE IF InText("parcial", text_lower) \/ InText("medio", text_lower)
                \/ InText("part", text_lower)
             THEN <<"Tiempo", " ", "Parcial">>
        ELSE <<"Tiempo", " ", "Completo">>

re_icon == <<Word("icon"), Word("tag")>>

\* The alt texts of the icon images from element j on
RECURSIVE TagList(_, _)
TagList(doc, j) ==
    IF j > Len(doc) THEN <<>>
    ELSE IF doc[j].tag = "img" /\ Search(re_icon, doc[j].src, FALSE)
            /\ Strip(doc[j].alt) # <<>>
         THEN <<Strip(doc[j].alt)>> \o TagList(doc, j + 1)
    ELSE TagList(doc, j + 1)

extract_tags(doc) == Join(<<",">>, TagList(doc, 1))

ExpiryDays == 90

\* now is the date datetime.now() falls on when the call reads the clock
calculate_expiry_date(now) == StrFTime(AddDays(now, ExpiryDays))

re_gender == IgnoreCase(<<Word("Genero"), Word("Gender"), Word("Sexo")>>)

extract_gender(doc) ==
    LET value == LabelValue(doc, re_gender, TRUE)
        text == LowerText(TextOf(doc, value))
    IN  IF value = 0 THEN <<"Indistinto">>
        ELSE IF InText("masculino", text) \/ InText("hombre", text)
                \/ InText("male", text)
             THEN <<"Masculino">>
        ELSE IF InText("femenino", text) \/ InText("mujer", text)
                \/ InText("female", text)
             THEN <<"Femenino">>
        ELSE <<"Indistinto">>

\* The e-mail addresses of the model, each one token
Emails == {"rh@empresa.cr", "info@empleos.net"}

re_email == << <<OneOf(Emails)>> >>

extract_email(doc) ==
    LET emails == FindAll(re_email, GetText(doc, 0, <<>>, FALSE), 1, FALSE)
    IN  IF emails # <<>> THEN emails[1] ELSE <<>>

re_salary == IgnoreCase(<<Word("Salario"), Word("Salary"), Word("Sueldo")>>)

extract_salary_type(doc) ==
    LET salary_text == FindString(doc, re_salary, TRUE)
        text == LowerText(GetText(doc, salary_text, <<>>, TRUE))
    IN  IF salary_text = 0 THEN <<"Mensual">>
        ELSE IF InText("mensual", text) \/ InText("monthly", text)
                \/ InText("mes", text)
             THEN <<"Mensual">>
        ELSE IF InText("anual", text) \/ InText("yearly", text)
                \/ InText("ano", text)
             THEN <<"Anual">>
        ELSE IF InText("hora", text) \/ InText("hourly", text)
             THEN <<"Por", " ", "Hora">>
        ELSE IF InText("semanal", text) \/ InText("weekly", text)
                \/ InText("semana", text)
             THEN <<"Semanal">>
        ELSE <<"Mensual">>

\* \d+[\d,\.]*
re_number == << <<Plus(Digits), Star(Digits \cup {",", "."})>> >>

\* numbers as they would be were the whole page searched for them
SalaryNumbers_WholePage(doc) ==
    LET salary_text == FindString(doc, re_salary, TRUE)
    IN  IF salary_text = 0 THEN <<>>
        ELSE FindAll(re_number, GetText(doc, 0, <<>>, FALSE), 1, FALSE)

\* numbers: the numeric tokens of the text of the element that holds the
\* first salary label
SalaryNumbers(doc) ==
    LET salary_text == FindString(doc, re_salary, TRUE)
    IN  IF salary_text = 0 THEN <<>>
        ELSE FindAll(re_number, GetText(doc, salary_text, <<>>, FALSE), 1,
                     FALSE)

extract_salary(doc) ==
    LET numbers == SalaryNumbers(doc)
    IN  IF numbers # <<>> THEN Remove(numbers[1], {",", "."}) ELSE <<>>

extract_max_salary(doc) ==
    LET numbers == SalaryNumbers(doc)
    IN  IF Len(numbers) >= 2 THEN Remove(numbers[2], {",", "."}) ELSE <<>>

re_experience == IgnoreCase(<<Word("Experiencia"), Word("Experience")>>)

extract_experience(doc) ==
    LET value == LabelValue(doc, re_experience, TRUE)
    IN  IF value # 0 THEN TextOf(doc, value) ELSE <<>>

re_career_level ==
    IgnoreCase(
    << <<Lit("Nivel"), Lit(" "), Lit("de"), Lit(" "), Lit("Computo")>>,
       <<Lit("Career"), Lit(" "), Lit("Level")>>,
       Word("Nivel") >>)

extract_career_level(doc) ==
    LET value == LabelValue(doc, re_career_level, TRUE)
        text == TextOf(doc, value)
    IN  IF value # 0 /\ text # <<>> THEN text
        ELSE <<"Nivel", " ", "Basico">>

re_qualification ==
    IgnoreCase(
    << <<Lit("Nivel"), Lit(" "), Lit("Academico")>>, Word("Education"),
       Word("Qualification"), Word("Escolaridad") >>)

extract_qualification(doc) ==
    LET value == LabelValue(doc, re_qualification, TRUE)
    IN  IF value # 0 THEN TextOf(doc, value) ELSE <<>>

re_video == IgnoreCase(<<Word("youtube"), Word("vimeo")>>)

extract_video(doc) ==
    LET videos == {i \in 1..Len(doc) : /\ doc[i].tag = "iframe"
                                        /\ Search(re_video, doc[i].src, TRUE)}
    IN  IF videos # {} THEN doc[Min(videos)].src ELSE <<>>

MaxPhotos == 5

\* photos: the resolved sources of the images from element j on
RECURSIVE PhotoList(_, _)
PhotoList(doc, j) ==
    IF j > Len(doc) THEN <<>>
    ELSE IF doc[j].tag = "img" /\ doc[j].src # <<>>
            /\ ~InText("logo", LowerText(doc[j].src))
            /\ ~InText("icon", LowerText(doc[j].src))
         THEN <<UrlJoin(base_url, doc[j].src)>> \o PhotoList(doc, j + 1)
    ELSE PhotoList(doc, j + 1)

extract_photos(doc) ==
    LET photos == PhotoList(doc, 1)
    IN  Join(<<",">>, SubSeq(photos, 1, IF Len(photos) < MaxPhotos
                                        THEN Len(photos) ELSE MaxPhotos))

\* Fecha[\\s]+Limite|Deadline|Cierre: in the raw string of the source the
\* class [\\s] holds the backslash and the letter s
re_deadline ==
    IgnoreCase(<< <<Lit("Fecha"), Plus({"\\", "s"}), Lit("Limite")>>,
       Word("Deadline"), Word("Cierre") >>)

extract_deadline(doc, now) ==
    LET value == LabelValue(doc, re_deadline, TRUE)
        date_text == TextOf(doc, value)
    IN  IF value # 0 /\ StrPTime(date_text) # None
        THEN StrFTime(StrPTime(date_text))
        ELSE calculate_expiry_date(now)

re_location_class == <<Word("location"), Word("ubicacion")>>

re_location ==
    IgnoreCase(
    << <<Lit("Ubicacion"), Lit(" "), Lit("del"), Lit(" "), Lit("Puesto")>>,
       Word("Location"), Word("Ubicacion") >>)

re_location_icon == <<Word("location"), Word("map"), Word("pin")>>

\* The words of two letters or more a place name may be: what
\* [A-Z][a-z...]+ matches when case is ignored
PlaceWords == {"Tibas", "Tournon", "Barrio", "Heredia", "San", "Jose"}

\* [A-Z][a-z...]+,\s*(?:San Jose|Costa Rica)
re_location_pattern ==
    IgnoreCase(<< <<OneOf(PlaceWords), Lit(","), Star(WhiteSpace),
         Lit("San"), Lit(" "), Lit("Jose")>>,
       <<OneOf(PlaceWords), Lit(","), Star(WhiteSpace),
         Lit("Costa"), Lit(" "), Lit("Rica")>> >>)

\* The text beside the first location icon, from element j on, that is
\* longer than 3 characters (the empty text: there is none)
RECURSIVE IconLocation(_, _)
IconLocation(doc, j) ==
    IF j > Len(doc) THEN <<>>
    ELSE IF doc[j].tag # "i" \/ ~Search(re_location_icon, doc[j].class, FALSE)
            \/ FindNextSibling(doc, j) = 0
         THEN IconLocation(doc, j + 1)
    ELSE LET loc_text == TextOf(doc, FindNextSibling(doc, j))
         IN  IF loc_text # <<>> /\ StrLen(loc_text) > 3 THEN loc_text
             ELSE IconLocation(doc, j + 1)

extract_location(doc) ==
    LET location == FindClass(doc, re_location_class, FALSE)
        class_text == TextOf(doc, location)
        value == LabelValue(doc, re_location, TRUE)
        value_text == TextOf(doc, value)
        icon_text == IconLocation(doc, 1)
        location_pattern == FindString(doc, re_location_pattern, TRUE)
    IN  IF location # 0 /\ class_text # <<>> THEN class_text
        ELSE IF value # 0 /\ value_text # <<>> THEN value_text
        ELSE IF icon_text # <<>> THEN icon_text
        ELSE IF location_pattern # 0 THEN Strip(doc[location_pattern].text)
        ELSE <<"Costa", " ", "Rica">>

-----------------------------------------------------------------------------
(* get_job_details *)

JobKeys ==
    {"_job_featured_image", "_job_title", "_job_featured", "_job_filled",
     "_job_urgent", "_job_description", "_job_category", "_job_type",
     "_job_tag", "_job_expiry_date", "_job_gender", "_job_apply_type",
     "_job_apply_url", "_job_apply_email", "_job_salary_type", "_job_salary",
     "_job_max_salary", "_job_experience", "_job_career_level",
     "_job_qualification", "_job_video_url", "_job_photos",
     "_job_application_deadline_date", "_job_address", "_job_location",
     "_job_map_location"}

\* job_data for the page doc fetched from url.  now1 and now2 are the dates
\* the two reads of the clock fall on: calculate_expiry_date() for
\* _job_expiry_date, and the one inside extract_deadline
JobData(doc, url, now1, now2) ==
    LET location_value == extract_location(doc)
    IN  ("_job_featured_image" :> extract_featured_image(doc))
     @@ ("_job_title" :> extract_title(doc))
     @@ ("_job_featured" :> is_featured(doc))
     @@ ("_job_filled" :> 0)
     @@ ("_job_urgent" :> is_urgent(doc))
     @@ ("_job_description" :> extract_description(doc))
     @@ ("_job_category" :> extract_category(doc))
     @@ ("_job_type" :> extract_type(doc))
     @@ ("_job_tag" :> extract_tags(doc))
     @@ ("_job_expiry_date" :> calculate_expiry_date(now1))
     @@ ("_job_gender" :> extract_gender(doc))
     @@ ("_job_apply_type" :> <<"external">>)
     @@ ("_job_apply_url" :> url)
     @@ ("_job_apply_email" :> extract_email(doc))
     @@ ("_job_salary_type" :> extract_salary_type(doc))
     @@ ("_job_salary" :> extract_salary(doc))
     @@ ("_job_max_salary" :> extract_max_salary(doc))
     @@ ("_job_experience" :> extract_experience(doc))
     @@ ("_job_career_level" :> extract_career_level(doc))
     @@ ("_job_qualification" :> extract_qualification(doc))
     @@ ("_job_video_url" :> extract_video(doc))
     @@ ("_job_photos" :> extract_photos(doc))
     @@ ("_job_application_deadline_date" :> extract_deadline(doc, now2))
     @@ ("_job_address" :> location_value)
     @@ ("_job_location" :> location_value)
     @@ ("_job_map_location" :> location_value)

\* get_job_details with a second location pass that misses the page
get_job_details_SecondPass(ok, doc, url, now1, now2) ==
    IF ok THEN [JobData(doc, url, now1, now2)
                    EXCEPT !["_job_map_location"] = <<"Costa", " ", "Rica">>]
    ELSE None

\* get_job_details with the URL resolved against the base origin
get_job_details_Resolved(ok, doc, url, now1, now2) ==
    IF ok THEN [JobData(doc, url, now1, now2)
                    EXCEPT !["_job_apply_url"] = UrlJoin(base_url, url)]
    ELSE None

\* get_job_details with the title left out of the record when it is empty
get_job_details_DropEmpty(ok, doc, url, now1, now2) ==
    LET rec == JobData(doc, url, now1, now2)
    IN  IF ~ok THEN None
        ELSE IF rec["_job_title"] # <<>> THEN rec
        ELSE [k \in JobKeys \ {"_job_title"} |-> rec[k]]

\* get_job_details returning a record whether or not the GET succeeded
get_job_details_NoFailure(ok, doc, url, now1, now2) ==
    JobData(doc, url, now1, now2)

\* get_job_details(job_url): the record of the page when the GET succeeds
\* (ok), None when it raises (network error, status, timeout)
get_job_details(ok, doc, url, now1, now2) ==
    IF ok THEN JobData(doc, url, now1, now2) ELSE None

-----------------------------------------------------------------------------
(* The crawl: listing pages, their job cards and the stored collection *)

\* The elements of the set S of element indices, in document order
RECURSIVE InOrder(_)
InOrder(S) == IF S = {} THEN <<>> ELSE <<Min(S)>> \o InOrder(S \ {Min(S)})

re_job_card ==
    <<Word("job"), Word("vacancy"), Word("puesto"), Word("oferta")>>

re_job_link == << <<Lit("/"), Lit("puesto"), Lit("/")>> >>

re_title_link == << <<Lit("puesto"), Lit("/")>> >>

re_next == IgnoreCase(<<Word("siguiente"), Word("next")>>)

\* job_cards of scrape_all_pages: the elements whose class matches, or,
\* when there is none, the parent of each link to a job (0: the document)
JobCards(doc) ==
    LET by_class == {i \in 1..Len(doc) :
                        Search(re_job_card, doc[i].class, FALSE)}
        job_links == InOrder({i \in 1..Len(doc) :
                        /\ doc[i].tag = "a"
                        /\ Search(re_job_link, doc[i].href, FALSE)})
    IN  IF by_class # {} THEN InOrder(by_class)
        ELSE [k \in 1..Len(job_links) |-> doc[job_links[k]].parent]

\* parse_job_listing(job_element): the URL of the first link to a job
\* under the element, resolved against base_url; None when there is none
parse_job_listing(doc, job_element) ==
    LET title_links == {j \in 1..Len(doc) :
                           /\ j # job_element
                           /\ Encloses(doc, job_element, j)
                           /\ doc[j].tag = "a"
                           /\ Search(re_title_link, doc[j].href, FALSE)}
    IN  IF title_links = {} THEN None
        ELSE UrlJoin(base_url, doc[Min(title_links)].href)

\* element.string: the text of an element that holds nothing else, or the
\* string of its only child; None otherwise
RECURSIVE ElString(_, _)
ElString(doc, i) ==
    LET children == {j \in 1..Len(doc) : doc[j].parent = i}
    IN  IF children = {} THEN doc[i].text
        ELSE IF doc[i].text = <<>> /\ Cardinality(children) = 1
             THEN ElString(doc, Min(children))
        ELSE None

\* The search for the next link as it would be were a link always found
HasNextLink_Always(doc) == TRUE

\* soup.find('a', text=re.compile(r'siguiente|next', re.IGNORECASE))
HasNextLink(doc) ==
    \E i \in 1..Len(doc) :
        doc[i].tag = "a" /\ Search(re_next, ElString(doc, i), TRUE)

\* existing_urls of weekly_update
ExistingUrls(existing_jobs) ==
    {existing_jobs[k]["_job_apply_url"] : k \in 1..Len(existing_jobs)}

\* new_jobs of weekly_update: the scraped records whose URL is not stored
NewJobs(existing_jobs, jobs) ==
    SelectSeq(jobs, LAMBDA job :
                  job["_job_apply_url"] \notin ExistingUrls(existing_jobs))

-----------------------------------------------------------------------------
(* Documents the specifications draw their inputs from *)

\* Element k and the elements that enclose it, the document (0) included
RECURSIVE Chain(_, _)
Chain(pv, k) == IF k = 0 THEN {0} ELSE {k} \cup Chain(pv, pv[k])

\* The parents the next element may have after elements with parents pv
NextParents(pv) == Chain(pv, Len(pv))

\* The shapes of the trees of n elements, each a sequence of parents
RECURSIVE Shapes(_)
Shapes(n) ==
    IF n = 0 THEN {<<>>}
    ELSE UNION {{Append(pv, q) : q \in NextParents(pv)} : pv \in Shapes(n - 1)}

\* The elements of HTML that hold no children
VoidTags == {"img"}

\* The documents of n elements drawn from nodes
DocsOfSize(nodes, n) ==
    {doc \in UNION {{[i \in 1..n |-> [f[i] EXCEPT !.parent = pv[i]]] :
                        f \in [1..n -> nodes]} : pv \in Shapes(n)} :
        \A i \in 1..n : doc[i].parent # 0 =>
                            doc[doc[i].parent].tag \notin VoidTags}

\* The documents of at most n elements drawn from nodes
DocsUpTo(nodes, n) == UNION {DocsOfSize(nodes, k) : k \in 0..n}

\* Texts the documents are written with
LabelFechaLimite == <<"Fecha", " ", "Limite">>
LabelDeadline == <<"Deadline">>
LabelCierre == <<"Cierre">>

\* The dates the clock may show when a call starts (a leap year included)
StartDays ==
    {[y |-> 2025, m |-> 10, d |-> 3], [y |-> 2023, m |-> 12, d |-> 31]}

\* The URLs get_job_details is called with: an absolute and a relative one
JobUrls ==
    {<<"https://", "empleos.net", "/", "puesto", "/", "1">>,
     <<"puesto", "/", "2">>}

\* The values the variables of the crawl hold while a single function runs
CrawlIdle ==
    /\ page = 0 /\ max_pages = 0 /\ job_cards = <<>> /\ more_pages = FALSE
    /\ all_jobs = <<>> /\ stored = <<>> /\ requests = <<>>
    /\ response = "none"

-----------------------------------------------------------------------------
(* SpecDetails: one call of get_job_details on a page drawn from DetailDocs *)

MaxDetailNodes == 2

DetailNodes ==
    {El("h1", 0, <<"Vacante", " ", "Fresca", " ", "Miscelanea">>),
     El("div", 0, <<" ", "hola", " ">>),
     ElC("span", 0, <<"job", "-", "location">>,
         <<" ", "Tibas", ",", " ", "Costa", " ", "Rica">>),
     El("td", 0, <<"Ubicacion", " ", "del", " ", "Puesto", ":">>),
     ElC("i", 0, <<"icon", "-", "map">>, <<>>),
     El("p", 0, <<" ", "Barrio", " ", "Tournon", ",", " ", "San", " ",
                  "Jose">>),
     El("td", 0, LabelDeadline),
     El("td", 0, <<"3", "1", "/", "1", "2", "/", "2", "0", "2", "5">>)}

\* A page with every kind of field on it
FullPage ==
    << El("h2", 0, <<"QA">>),
       El("h1", 0, <<"Vacante", " ", "Fresca", " ", "Chofer">>),
       ElC("div", 0, <<"featured">>, <<"Urgente">>),
       ElSrc("img", 0, <<"company">>, <<"logo", ".png">>, <<>>),
       ElSrc("img", 0, <<>>, <<"/", "icon", "/", "b", ".png">>,
             <<" ", "Bono", " ">>),
       ElSrc("img", 0, <<>>, <<"/", "foto", ".jpg">>, <<>>),
       ElSrc("iframe", 0, <<>>, <<"https://", "youtube", ".com", "/", "v">>,
             <<>>),
       El("h4", 0, <<"Funciones", " ", "del", " ", "Puesto">>),
       El("div", 0, <<"Conducir">>),
       El("td", 0, <<"Area", " ", "del", " ", "Puesto">>),
       El("td", 0, <<"Transporte">>),
       El("td", 0, <<"Genero">>), El("td", 0, <<"Female">>),
       El("td", 0, <<"Experiencia">>), El("td", 0, <<"2", " ", "anos">>),
       El("td", 0, <<"Nivel", " ", "Academico">>), El("td", 0, <<"Bachiller">>),
       El("td", 0, <<"Tiempo", " ", "Parcial">>),
       El("td", 0, <<"Sueldo", " ", "9", "0", "0">>),
       El("td", 0, LabelFechaLimite),
       El("td", 0, <<"0", "1", "/", "0", "2", "/", "2", "0", "2", "6">>),
       El("p", 0, <<"rh@empresa.cr">>) >>

DetailDocs == DocsUpTo(DetailNodes, MaxDetailNodes) \cup {FullPage}

InitDetails ==
    /\ soup \in DetailDocs
    /\ job_url \in JobUrls
    /\ today \in StartDays
    /\ job_data = None /\ result = None /\ attempts = 0
    /\ pc = "call" /\ caller = "get_job_details"
    /\ CrawlIdle

\* get_job_details(job_url) runs: the GET succeeds or fails; when it
\* succeeds the clock is read twice, and midnight may pass in between
GetJobDetails ==
    /\ pc = "call" /\ caller = "get_job_details"
    /\ \E ok \in BOOLEAN, now2 \in {today, AddDays(today, 1)} :
          /\ job_data' = get_job_details(ok, soup, job_url, today, now2)
          /\ today' = IF ok THEN now2 ELSE today
          /\ response' = IF ok THEN "ok" ELSE "error"
    /\ attempts' = 1
    /\ pc' = "returned"
    /\ UNCHANGED <<soup, job_url, result, page, max_pages, job_cards,
                   more_pages, all_jobs, stored, requests, caller>>

NextDetails == GetJobDetails

SpecDetails == InitDetails /\ [][NextDetails]_vars

\* A document with nothing an extractor looks for: no element, or plain
\* div elements with plain text
PlainDoc(doc) ==
    \A i \in 1..Len(doc) :
        /\ doc[i].tag = "div" /\ doc[i].class = <<>> /\ doc[i].src = <<>>
        /\ doc[i].alt = <<>> /\ doc[i].href = <<>>
        /\ \A k \in 1..Len(doc[i].text) : doc[i].text[k] \in {"hola", " "}

Returned == pc = "returned" /\ job_data # None

\* C1: in every record get_job_details returns, _job_address, _job_location
\* and _job_map_location hold the same value, the result of extract_location
\* on the document.
C1_LocationFieldsAgree ==
    Returned =>
        /\ job_data["_job_address"] = extract_location(soup)
        /\ job_data["_job_location"] = job_data["_job_address"]
        /\ job_data["_job_map_location"] = job_data["_job_address"]

\* A record whose location was read off the page
C1_Witness ==
    /\ Returned
    /\ job_data["_job_map_location"]
          = <<"Tibas", ",", " ", "Costa", " ", "Rica">>

\* C2: every record get_job_details returns has _job_apply_url equal to the
\* input URL, token for token, with no resolution against the base origin.
C2_ApplyUrlVerbatim == Returned => job_data["_job_apply_url"] = job_url

\* A record returned for a URL that resolution would have changed
C2_Witness ==
    /\ Returned
    /\ UrlJoin(base_url, job_url) # job_url
    /\ job_data["_job_apply_url"] = <<"puesto", "/", "2">>

\* C3: every record get_job_details returns has exactly the keys of JobKeys,
\* whatever the document holds; a field with nothing on the page is an empty
\* text or a default, never a missing key.
C3_FixedKeys == Returned => DOMAIN job_data = JobKeys

\* A record with empty fields (the empty document) is returned
C3_Witness ==
    /\ Returned
    /\ soup = <<>>
    /\ job_data["_job_title"] = <<>>
    /\ "_job_title" \in DOMAIN job_data

\* C4: for a document with no matching element or text, get_job_details
\* returns a record and every field has its default; the deadline is the
\* date 90 days after the day the clock showed when it was read.
C4_EmptyDocDefaults ==
    Returned /\ PlainDoc(soup) =>
        /\ job_data["_job_category"] = <<"Aduanas">>
        /\ job_data["_job_type"] = <<"Tiempo", " ", "Completo">>
        /\ job_data["_job_gender"] = <<"Indistinto">>
        /\ job_data["_job_salary_type"] = <<"Mensual">>
        /\ job_data["_job_career_level"] = <<"Nivel", " ", "Basico">>
        /\ job_data["_job_address"] = <<"Costa", " ", "Rica">>
        /\ job_data["_job_location"] = <<"Costa", " ", "Rica">>
        /\ job_data["_job_map_location"] = <<"Costa", " ", "Rica">>
        /\ job_data["_job_featured"] = 0
        /\ job_data["_job_urgent"] = 0
        /\ job_data["_job_filled"] = 0
        /\ job_data["_job_apply_type"] = <<"external">>
        /\ job_data["_job_application_deadline_date"]
              = StrFTime(FromOrdinal(ToOrdinal(today) + 90))
        /\ \A k \in {"_job_featured_image", "_job_title", "_job_description",
                      "_job_tag", "_job_apply_email", "_job_salary",
                      "_job_max_salary", "_job_experience",
                      "_job_qualification", "_job_video_url", "_job_photos"} :
              job_data[k] = <<>>

\* A record returned for the empty document
C4_Witness ==
    Returned /\ soup = <<>> /\ job_data["_job_category"] = <<"Aduanas">>

\* The value the deadline label leads to holds no date that parses
NoDeadlineParsed(doc) ==
    \/ LabelValue(doc, re_deadline, TRUE) = 0
    \/ StrPTime(TextOf(doc, LabelValue(doc, re_deadline, TRUE))) = None

\* C10: in every record for which no deadline is parsed from the page,
\* _job_application_deadline_date equals _job_expiry_date, even when
\* midnight passes between the two reads of the clock.
C10_DeadlineEqualsExpiry ==
    Returned /\ NoDeadlineParsed(soup) =>
        job_data["_job_application_deadline_date"]
            = job_data["_job_expiry_date"]

-----------------------------------------------------------------------------
(* SpecDeadline: extract_deadline on a page drawn from DeadlineDocs *)

MaxDeadlineNodes == 2

DeadlineNodes ==
    {El("td", 0, LabelFechaLimite),
     El("td", 0, LabelDeadline),
     El("th", 0, <<" ", "Cierre", ":">>),
     El("td", 0, <<"3", "1", "/", "1", "2", "/", "2", "0", "2", "5">>),
     El("td", 0, <<" ", "2", "9", "/", "0", "2", "/", "2", "0", "2", "4">>),
     El("td", 0, <<"3", "1", "/", "0", "4", "/", "2", "0", "2", "5">>),
     El("td", 0, <<"1", "/", "2", "/", "2", "0", "2", "5">>),
     El("td", 0, <<"pronto">>)}

DeadlineDocs == DocsUpTo(DeadlineNodes, MaxDeadlineNodes)

InitDeadline ==
    /\ soup \in DeadlineDocs
    /\ today \in StartDays
    /\ job_url = <<>> /\ job_data = None /\ result = None /\ attempts = 0
    /\ pc = "call" /\ caller = "extract_deadline"
    /\ CrawlIdle

ExtractDeadline ==
    /\ pc = "call" /\ caller = "extract_deadline"
    /\ result' = extract_deadline(soup, today)
    /\ pc' = "returned"
    /\ UNCHANGED <<soup, job_url, today, job_data, page, max_pages, job_cards,
                   more_pages, all_jobs, stored, requests, attempts,
                   response, caller>>

NextDeadline == ExtractDeadline

SpecDeadline == InitDeadline /\ [][NextDeadline]_vars

\* lab occurs in text s
HasLabel(s, lab) ==
    \E i \in 1..Len(s) :
        i + Len(lab) - 1 <= Len(s) /\ SubSeq(s, i, i + Len(lab) - 1) = lab

DeadlineLabels == {LabelFechaLimite, LabelDeadline, LabelCierre}

\* The first element of doc, in document order, whose text holds one of the
\* three deadline labels (0: none)
FirstDeadlineLabel(doc) ==
    LET hits == {i \in 1..Len(doc) :
                    \E lab \in DeadlineLabels : HasLabel(doc[i].text, lab)}
    IN  IF hits = {} THEN 0 ELSE Min(hits)

\* s is a date written dd/mm/yyyy that the calendar has
ValidDMY(s) ==
    /\ Len(s) = 10
    /\ s[3] = "/" /\ s[6] = "/"
    /\ \A k \in {1, 2, 4, 5, 7, 8, 9, 10} : s[k] \in Digits
    /\ LET d == 10 * DigitVal(s[1]) + DigitVal(s[2])
           m == 10 * DigitVal(s[4]) + DigitVal(s[5])
           y == 1000 * DigitVal(s[7]) + 100 * DigitVal(s[8])
                  + 10 * DigitVal(s[9]) + DigitVal(s[10])
       IN  m \in 1..12 /\ y >= 1 /\ d >= 1 /\ d <= DaysIn(y, m)

\* dd/mm/yyyy rewritten yyyy-mm-dd
Reformatted(s) ==
    <<s[7], s[8], s[9], s[10], "-", s[4], s[5], "-", s[1], s[2]>>

\* C5: for each of the labels Fecha Limite, Deadline and Cierre, when the
\* document holds the label and the text of the element next to it is a
\* valid dd/mm/yyyy date, extract_deadline returns it as yyyy-mm-dd; when
\* that text does not parse, it returns the date 90 days after today.
C5_DeadlineByLabel ==
    pc = "returned" /\ caller = "extract_deadline" =>
        LET lab == FirstDeadlineLabel(soup)
            value == ValueOf(soup, lab)
            date_text == TextOf(soup, value)
        IN  lab # 0 /\ value # 0 =>
                /\ ValidDMY(date_text) => result = Reformatted(date_text)
                /\ StrPTime(date_text) = None =>
                        result = StrFTime(AddDays(today, 90))

-----------------------------------------------------------------------------
(* SpecTitle: extract_title on a page drawn from TitleDocs *)

MaxTitleNodes == 2

TitleNodes ==
    {El("h1", 0, <<"Vacante", " ", "Fresca", " ", "Miscelanea">>),
     El("h2", 0, <<" ", "QA", "\n">>),
     El("h3", 0, <<" ">>),
     El("h1", 0, <<"VACANTE", " ", " ", "FRESCA">>),
     El("h2", 0, <<"Chofer">>),
     El("h3", 0, <<"TI", "vacante", "\n", "fresca">>),
     ElC("div", 0, <<"job", "-", "title">>,
         <<"Vacante", " ", "Fresca", " ", "Cajero">>),
     El("div", 0, <<"hola">>)}

TitleDocs == DocsUpTo(TitleNodes, MaxTitleNodes)

InitTitle ==
    /\ soup \in TitleDocs
    /\ today \in StartDays
    /\ job_url = <<>> /\ job_data = None /\ result = None /\ attempts = 0
    /\ pc = "call" /\ caller = "extract_title"
    /\ CrawlIdle

ExtractTitle ==
    /\ pc = "call" /\ caller = "extract_title"
    /\ result' = extract_title(soup)
    /\ pc' = "returned"
    /\ UNCHANGED <<soup, job_url, today, job_data, page, max_pages, job_cards,
                   more_pages, all_jobs, stored, requests, attempts,
                   response, caller>>

NextTitle == ExtractTitle

SpecTitle == InitTitle /\ [][NextTitle]_vars

\* The h1, h2 and h3 elements of doc whose text, the badge removed and the
\* whitespace around it trimmed, has more than n characters
HeadingsLongerThan(doc, n) ==
    {i \in 1..Len(doc) : /\ doc[i].tag \in {"h1", "h2", "h3"}
                         /\ StrLen(HeadingText(doc, i)) > n}

\* C6 as stated: extract_title returns the text of the first h1/h2/h3
\* heading whose text is non-empty after the badge is removed and the
\* whitespace trimmed; no non-empty heading is passed over for a later one.
C6_FirstNonEmptyHeading ==
    pc = "returned" /\ caller = "extract_title" =>
        LET found == HeadingsLongerThan(soup, 0)
        IN  found # {} => result = HeadingText(soup, Min(found))

\* C6 amended: extract_title returns the text of the first h1/h2/h3 heading
\* whose text, the badge removed and the whitespace trimmed, is longer than
\* 2 characters; shorter headings are skipped and no longer one is passed
\* over for a later one.
C6_FirstSignificantHeading ==
    pc = "returned" /\ caller = "extract_title" =>
        LET found == HeadingsLongerThan(soup, 2)
        IN  found # {} => result = HeadingText(soup, Min(found))

\* A heading of two characters is passed over for a later, longer one
C6_Witness ==
    /\ pc = "returned" /\ caller = "extract_title"
    /\ HeadingsLongerThan(soup, 2) # {}
    /\ Min(HeadingsLongerThan(soup, 0)) < Min(HeadingsLongerThan(soup, 2))
    /\ result = <<"Chofer">>

-----------------------------------------------------------------------------
(* SpecSalary: extract_salary and extract_max_salary on a page drawn from
   SalaryDocs *)

MaxSalaryNodes == 2

SalaryNodes ==
    {El("td", 0, <<"Salario", ":", " ", "4", "5", ",", "0", " ", "-", " ",
                   "6", "5", ".", "0", ".">>),
     El("td", 0, <<"Sueldo", " ">>),
     El("span", 0, <<"1", ".", "5">>),
     El("span", 0, <<",", "7", " ", ".", " ", "8", ",", ",", "2">>),
     El("p", 0, <<"SALARY", " ", "9", "0", "0", " ", "mensual">>),
     El("div", 0, <<"hola", " ", "3">>),
     El("b", 0, <<".">>)}

SalaryDocs == DocsUpTo(SalaryNodes, MaxSalaryNodes)

InitSalary ==
    /\ soup \in SalaryDocs
    /\ today \in StartDays
    /\ job_url = <<>> /\ job_data = None /\ result = None /\ attempts = 0
    /\ pc = "call" /\ caller \in {"extract_salary", "extract_max_salary"}
    /\ CrawlIdle

ExtractSalary ==
    /\ pc = "call" /\ caller = "extract_salary"
    /\ result' = extract_salary(soup)
    /\ pc' = "returned"
    /\ UNCHANGED <<soup, job_url, today, job_data, page, max_pages, job_cards,
                   more_pages, all_jobs, stored, requests, attempts,
                   response, caller>>

ExtractMaxSalary ==
    /\ pc = "call" /\ caller = "extract_max_salary"
    /\ result' = extract_max_salary(soup)
    /\ pc' = "returned"
    /\ UNCHANGED <<soup, job_url, today, job_data, page, max_pages, job_cards,
                   more_pages, all_jobs, stored, requests, attempts,
                   response, caller>>

NextSalary == ExtractSalary \/ ExtractMaxSalary

SpecSalary == InitSalary /\ [][NextSalary]_vars

\* The first element of doc whose own text holds a salary label in any
\* letter case (0: none)
FirstSalaryLabel(doc) ==
    LET hits == {i \in 1..Len(doc) :
                    \E k \in 1..Len(doc[i].text) :
                        Lower(doc[i].text[k])
                            \in {"salario", "salary", "sueldo"}}
    IN  IF hits = {} THEN 0 ELSE Min(hits)

\* The text of element i with the text of all that it encloses
EnclosedText(doc, i) ==
    LET F[j \in 0..Len(doc)] ==
            IF j = 0 THEN <<>>
            ELSE IF Encloses(doc, i, j) THEN F[j - 1] \o doc[j].text
            ELSE F[j - 1]
    IN  F[Len(doc)]

NumberChars == {"0", "1", "2", "3", "4", "5", "6", "7", "8", "9", ",", "."}

\* s[a..b] is made of digits, commas and periods only
NumberRun(s, a, b) == \A k \in a..b : s[k] \in NumberChars

\* Where the numeric tokens of s start: at a digit that no digit precedes
\* in its run of digits, commas and periods
TokenStarts(s) ==
    {i \in 1..Len(s) :
        /\ s[i] \in {"0", "1", "2", "3", "4", "5", "6", "7", "8", "9"}
        /\ \A k \in 1..(i - 1) :
              NumberRun(s, k, i - 1) => s[k] \in {",", "."}}

\* The digits of the n-th numeric token of s: the token runs from its start
\* to the end of the run of digits, commas and periods (<<>>: no such token)
TokenDigits(s, n) ==
    IF Cardinality(TokenStarts(s)) < n THEN <<>>
    ELSE LET a == CHOOSE i \in TokenStarts(s) :
                      Cardinality({j \in TokenStarts(s) : j < i}) = n - 1
             b == CHOOSE j \in a..Len(s) :
                      /\ NumberRun(s, a, j)
                      /\ j = Len(s) \/ s[j + 1] \notin NumberChars
         IN  SelectSeq(SubSeq(s, a, b), LAMBDA c : c \notin {",", "."})

\* C7: with the numeric tokens of the text of the element that holds the
\* first salary label taken in order, extract_salary returns the first and
\* extract_max_salary the second, commas and periods removed; each returns
\* the empty text when its token, or the label, is missing.
C7_SalaryTokens ==
    pc = "returned" =>
        LET lab == FirstSalaryLabel(soup)
            text == IF lab = 0 THEN <<>> ELSE EnclosedText(soup, lab)
        IN  /\ caller = "extract_salary" => result = TokenDigits(text, 1)
            /\ caller = "extract_max_salary" => result = TokenDigits(text, 2)

\* The maximum is read off a label followed by two tokens with commas and
\* periods in them
C7_Witness ==
    /\ pc = "returned" /\ caller = "extract_max_salary"
    /\ soup # <<>> /\ soup[1].text[1] = "Salario"
    /\ result = <<"6", "5", "0">>

-----------------------------------------------------------------------------
(* Spec: the crawl.  initial_scrape, weekly_update or scrape_all_pages is  *)
(* called once on a site drawn from ListingDocs; the stored collection is  *)
(* the content of costa_rica_jobs_full.json.                               *)

\* The site holds at most MaxPages listing pages with job cards on them
MaxPages == 2

\* max_pages of initial_scrape
InitialPages == 44

\* The listing pages of the site
TwoCardsOneJob ==
    << ElC("div", 0, <<"job", "-", "card">>, <<>>),
       ElA(1, <<"/", "puesto", "/", "1">>, <<"Chofer">>),
       ElC("div", 0, <<"job", "-", "card">>, <<>>),
       ElA(3, <<"puesto", "/", "1">>, <<"Chofer">>),
       ElA(0, <<>>, <<"Siguiente">>) >>

NestedCard ==
    << ElC("div", 0, <<"oferta">>, <<>>),
       ElC("h2", 1, <<"job", "-", "title">>, <<>>),
       ElA(2, <<"/", "puesto", "/", "2">>, <<"Cajero">>) >>

PlainLinks ==
    << El("li", 0, <<>>),
       ElA(1, <<"/", "puesto", "/", "1">>, <<"Chofer">>),
       El("li", 0, <<>>),
       ElA(3, <<"/", "puesto", "/", "2">>, <<"Cajero">>),
       ElA(0, <<>>, <<>>),
       El("b", 5, <<"NEXT">>) >>

CardWithoutLink ==
    << ElC("div", 0, <<"vacancy">>, <<"hola">>),
       ElC("div", 0, <<"job">>, <<>>),
       ElA(2, <<"/", "puesto", "/", "2">>, <<"Cajero">>),
       ElA(0, <<>>, <<"next">>) >>

NoResults == << El("p", 0, <<"hola">>) >>

ListingDocs ==
    {TwoCardsOneJob, NestedCard, PlainLinks, CardWithoutLink, NoResults}

\* The listing pages a request for page p may return
SiteListing(p) == IF p <= MaxPages THEN ListingDocs ELSE {NoResults}

\* The detail page of the site behind url
SitePage(url) ==
    IF url[Len(url)] = "1"
    THEN << El("h1", 0, <<"Vacante", " ", "Fresca", " ", "Chofer">>) >>
    ELSE << El("h2", 0, <<"Cajero">>),
            El("td", 0, <<"Sueldo", " ", "9", "0", "0">>) >>

\* The collections costa_rica_jobs_full.json may hold when a run starts: no
\* file, or one record; no two of their records share a _job_apply_url
StoredFiles(now) ==
    {<<>>,
     << JobData(SitePage(<<"1">>),
                <<"https://", "empleos.net", "/", "puesto", "/", "1">>,
                now, now) >>}

Init ==
    /\ today = [y |-> 2025, m |-> 10, d |-> 3]
    /\ stored \in StoredFiles(today)
    /\ soup = <<>> /\ job_url = None /\ job_data = None /\ result = None
    /\ pc = "idle" /\ caller = "none"
    /\ page = 0 /\ max_pages = 0 /\ job_cards = <<>> /\ more_pages = FALSE
    /\ all_jobs = <<>> /\ requests = <<>> /\ attempts = 0
    /\ response = "none"

\* scraper.scrape_all_pages(max_pages) is called and starts its loop
ScrapeAllPages ==
    /\ pc = "idle"
    /\ caller' = "scrape_all_pages"
    /\ \E n \in 1..MaxPages : max_pages' = n
    /\ page' = 1 /\ all_jobs' = <<>> /\ pc' = "page"
    /\ UNCHANGED <<soup, job_url, today, job_data, result, job_cards,
                   more_pages, stored, requests, attempts, response>>

\* initial_scrape() up to the loop of scrape_all_pages(max_pages=44)
InitialScrape ==
    /\ pc = "idle"
    /\ caller' = "initial_scrape"
    /\ max_pages' = InitialPages
    /\ page' = 1 /\ all_jobs' = <<>> /\ pc' = "page"
    /\ UNCHANGED <<soup, job_url, today, job_data, result, job_cards,
                   more_pages, stored, requests, attempts, response>>

\* weekly_update() up to the loop of scrape_first_page_only(), which is
\* scrape_all_pages(max_pages=1)
WeeklyUpdate ==
    /\ pc = "idle"
    /\ caller' = "weekly_update"
    /\ max_pages' = 1
    /\ page' = 1 /\ all_jobs' = <<>> /\ pc' = "page"
    /\ UNCHANGED <<soup, job_url, today, job_data, result, job_cards,
                   more_pages, stored, requests, attempts, response>>

\* The head of the loop over the pages: get_job_listings_page(page) fails
\* (or returns an empty body), and the page is skipped, or returns a page
\* whose cards are found
GetJobListingsPage ==
    /\ pc = "page" /\ page <= max_pages
    /\ requests' = Append(requests, page)
    /\ \E ok \in BOOLEAN, html \in SiteListing(page) :
          IF ok
          THEN /\ soup' = html
               /\ job_cards' = JobCards(html)
               /\ pc' = "cards"
               /\ page' = page
          ELSE /\ page' = page + 1
               /\ UNCHANGED <<soup, job_cards, pc>>
    /\ UNCHANGED <<job_url, today, job_data, result, max_pages, more_pages,
                   all_jobs, stored, attempts, response, caller>>

\* range(1, max_pages + 1) is exhausted
EndOfPages ==
    /\ pc = "page" /\ page > max_pages
    /\ pc' = "return"
    /\ UNCHANGED <<soup, job_url, today, job_data, result, page, max_pages,
                   job_cards, more_pages, all_jobs, stored, requests,
                   attempts, response, caller>>

\* One turn of the loop over job_cards
ProcessCard ==
    /\ pc = "cards" /\ job_cards # <<>>
    /\ job_cards' = Tail(job_cards)
    /\ job_url' = parse_job_listing(soup, Head(job_cards))
    /\ IF job_url' = None
       THEN /\ job_data' = None /\ attempts' = 0 /\ response' = "none"
            /\ all_jobs' = all_jobs
       ELSE /\ \E ok \in BOOLEAN :
                  /\ job_data' = get_job_details(ok, SitePage(job_url'),
                                                 job_url', today, today)
                  /\ response' = IF ok THEN "ok" ELSE "error"
            /\ attempts' = 1
            /\ all_jobs' = IF job_data' # None
                           THEN Append(all_jobs, job_data') ELSE all_jobs
    /\ UNCHANGED <<soup, today, result, pc, page, max_pages, more_pages,
                   stored, requests, caller>>

\* After the last card: the crawl ends on a page without a next link
NextPage ==
    /\ pc = "cards" /\ job_cards = <<>>
    /\ more_pages' = HasNextLink(soup)
    /\ IF more_pages' THEN page' = page + 1 /\ pc' = "page"
       ELSE page' = page /\ pc' = "return"
    /\ UNCHANGED <<soup, job_url, today, job_data, result, max_pages,
                   job_cards, all_jobs, stored, requests, attempts,
                   response, caller>>

\* scrape_all_pages returns all_jobs to a caller that keeps it
ScrapeAllPagesReturn ==
    /\ pc = "return" /\ caller = "scrape_all_pages"
    /\ pc' = "done"
    /\ UNCHANGED <<soup, job_url, today, job_data, result, page, max_pages,
                   job_cards, more_pages, all_jobs, stored, requests,
                   attempts, response, caller>>

\* initial_scrape() after the crawl: the records replace the stored file
InitialScrapeSave ==
    /\ pc = "return" /\ caller = "initial_scrape"
    /\ stored' = IF all_jobs # <<>> THEN all_jobs ELSE stored
    /\ pc' = "done"
    /\ UNCHANGED <<soup, job_url, today, job_data, result, page, max_pages,
                   job_cards, more_pages, all_jobs, requests, attempts,
                   response, caller>>

\* weekly_update() after the crawl: the new records are added to the
\* stored file
WeeklyUpdateSave ==
    /\ pc = "return" /\ caller = "weekly_update"
    /\ LET new_jobs == NewJobs(stored, all_jobs)
       IN  stored' = IF all_jobs # <<>> /\ new_jobs # <<>>
                     THEN stored \o new_jobs ELSE stored
    /\ pc' = "done"
    /\ UNCHANGED <<soup, job_url, today, job_data, result, page, max_pages,
                   job_cards, more_pages, all_jobs, requests, attempts,
                   response, caller>>

Next ==
    \/ ScrapeAllPages
    \/ InitialScrape
    \/ WeeklyUpdate
    \/ GetJobListingsPage
    \/ EndOfPages
    \/ ProcessCard
    \/ NextPage
    \/ ScrapeAllPagesReturn
    \/ InitialScrapeSave
    \/ WeeklyUpdateSave

Spec == Init /\ [][Next]_vars

\* No two records of jobs share a _job_apply_url
KeyedByUrl(jobs) ==
    \A a, b \in 1..Len(jobs) :
        jobs[a]["_job_apply_url"] = jobs[b]["_job_apply_url"] => a = b

\* C8: the stored collection is keyed by _job_apply_url: no two of its
\* records share a URL before weekly_update runs (every collection of
\* StoredFiles), so no two share one after it, whatever the cards of the
\* first listing page.
C8_StoredKeyedByUrl ==
    caller = "weekly_update" /\ pc = "done" => KeyedByUrl(stored)

\* C9: when the GET of a job detail page fails, get_job_details sends no
\* second request and returns None, scrape_all_pages adds nothing to
\* all_jobs and changes none of its records, and the loop goes on with the
\* remaining cards of the page.
C9_FailedFetchSkipped ==
    [][response' = "error" /\ pc = "cards" /\ job_cards # <<>> =>
          /\ attempts' = 1
          /\ job_data' = None
          /\ all_jobs' = all_jobs
          /\ job_cards' = Tail(job_cards)
          /\ pc' = "cards" /\ page' = page]_vars

\* A GET failed after a record was collected and with a card left to visit
C9_Witness ==
    /\ pc = "cards" /\ response = "error" /\ job_data = None
    /\ job_url # None /\ attempts = 1
    /\ all_jobs # <<>> /\ job_cards # <<>>

-----------------------------------------------------------------------------
(* SpecFair: the crawl of a program that keeps running: a step that can be *)
(* taken is taken.                                                         *)

SpecFair == Spec /\ WF_vars(Next)

\* doc holds a link whose text names the next page, in any letter case
NamesNextPage(doc) ==
    \E i, j \in 1..Len(doc) :
        /\ doc[i].tag = "a" /\ Encloses(doc, i, j)
        /\ \E k \in 1..Len(doc[j].text) :
              Lower(doc[j].text[k]) \in {"siguiente", "next"}

\* The listing pages are requested in the order 1, 2, 3, ... and none
\* above max_pages
RequestsInOrder ==
    /\ \A k \in 1..Len(requests) : requests[k] = k
    /\ Len(requests) <= max_pages

\* The crawl is over: every page up to max_pages was requested, or the
\* last page fetched holds no next link
StoppedInTime ==
    pc \in {"return", "done"} =>
        \/ Len(requests) = max_pages
        \/ soup # <<>> /\ ~NamesNextPage(soup)

\* A step that requests a listing page requests the one after the last
\* request, and only when every page fetched so far held a next link; the
\* page is then worked on, or, its fetch failed, the loop goes on with the
\* next page number
RequestStep ==
    requests' # requests =>
        /\ requests' = Append(requests, Len(requests) + 1)
        /\ soup # <<>> => NamesNextPage(soup)
        /\ \/ pc' = "cards" /\ page' = Len(requests')
           \/ /\ pc' = "page" /\ page' = Len(requests') + 1
              /\ soup' = soup /\ all_jobs' = all_jobs

\* C11: scrape_all_pages(max_pages) terminates; it requests the listing
\* pages 1, 2, 3, ... in order, each once and none above max_pages, stops
\* after the first fetched page without a next link, and goes on with the
\* next page number when a fetch fails; weekly_update, through
\* scrape_first_page_only, requests page 1 only.
C11_CrawlTerminates ==
    /\ [](RequestsInOrder /\ StoppedInTime)
    /\ [][RequestStep]_vars
    /\ [](caller = "weekly_update" => Len(requests) <= 1)
    /\ <>(pc = "done")

\* initial_scrape ended on the second of its 44 pages, which held no next
\* link, after the first page was fetched with one
C11_Witness ==
    /\ pc = "done" /\ caller = "initial_scrape"
    /\ requests = <<1, 2>> /\ Len(requests) < max_pages
    /\ soup = NestedCard /\ ~more_pages /\ all_jobs # <<>>

-----------------------------------------------------------------------------
(* SpecGender: extract_gender on a page drawn from GenderDocs *)

MaxGenderNodes == 2

GenderNodes ==
    {El("td", 0, <<"Genero">>),
     El("span", 0, <<" ", "Sexo", ":">>),
     El("td", 0, <<"Female">>),
     El("td", 0, <<" ", "Femenino", " ">>),
     El("td", 0, <<"Mujer">>),
     El("td", 0, <<"Hombre">>),
     El("td", 0, <<"Male">>),
     El("td", 0, <<"Indistinto">>),
     El("td", 0, <<"mujer", " ", "o", " ", "hombre">>),
     El("td", 0, <<"hola">>)}

GenderDocs == DocsUpTo(GenderNodes, MaxGenderNodes)

InitGender ==
    /\ soup \in GenderDocs
    /\ today \in StartDays
    /\ job_url = <<>> /\ job_data = None /\ result = None /\ attempts = 0
    /\ pc = "call" /\ caller = "extract_gender"
    /\ CrawlIdle

ExtractGender ==
    /\ pc = "call" /\ caller = "extract_gender"
    /\ result' = extract_gender(soup)
    /\ pc' = "returned"
    /\ UNCHANGED <<soup, job_url, today, job_data, page, max_pages, job_cards,
                   more_pages, all_jobs, stored, requests, attempts,
                   response, caller>>

NextGender == ExtractGender

SpecGender == InitGender /\ [][NextGender]_vars

\* The first element of doc whose own text holds a gender label in any
\* letter case (0: none)
FirstGenderLabel(doc) ==
    LET hits == {i \in 1..Len(doc) :
                    \E k \in 1..Len(doc[i].text) :
                        Lower(doc[i].text[k]) \in {"genero", "gender", "sexo"}}
    IN  IF hits = {} THEN 0 ELSE Min(hits)

\* The words of text s, in lower case
WordsOf(s) == {Lower(s[k]) : k \in 1..Len(s)}

\* C12: extract_gender returns Masculino, Femenino or Indistinto, and it
\* returns Femenino when the text of the element next to the gender label
\* holds femenino, mujer or female and neither masculino nor hombre.
C12_FeminineKeywords ==
    pc = "returned" /\ caller = "extract_gender" =>
        /\ result \in {<<"Masculino">>, <<"Femenino">>, <<"Indistinto">>}
        /\ LET lab == FirstGenderLabel(soup)
               value == IF lab = 0 THEN 0 ELSE ValueOf(soup, lab)
               words == IF value = 0 THEN {}
                        ELSE WordsOf(TextOf(soup, value))
           IN  /\ words \cap {"femenino", "mujer", "female"} # {}
               /\ words \cap {"masculino", "hombre"} = {}
               => result = <<"Femenino">>


=============================================================================
